---- MODULE Spec2Model ----
(***************************************************************************)
(* Model of custom_components/china_southern_power_grid_stat/__init__.py.  *)
(*                                                                         *)
(* The entry points are tasks of the host's single cooperative event loop: *)
(* a task runs atomically from one await to the next, so every action      *)
(* below is the code between two await points.                             *)
(*                                                                         *)
(*   Spec         entry lifecycle (async_setup_entry / async_unload_entry) *)
(*                driven by a host that sets up entries that are not       *)
(*                loaded and unloads entries that are.                     *)
(*   SpecRepeat   the same entry points called in any order.               *)
(*   SpecRemoval  device removal, entry removal and the purge services on  *)
(*                a host with two loaded entries.                          *)
(***************************************************************************)
EXTENDS Integers, Sequences, FiniteSets, TLC

\* ------------------------------------------------------------------ bounds
\* config entries of this integration the host may hold
NumEntries == 2
\* entry-point invocations started in one behaviour of SpecRemoval
MaxCalls == 2
\* last value of the wall clock, in whole milliseconds
MaxNow == 2

Entries == 1..NumEntries

\* SERVICE_PURGE_DEVICE_DATA, SERVICE_PURGE_ALL_DATA
ServiceNames == {"purge_device_data", "purge_all_data"}

\* outcomes of the blocking client.verify_login() run in the executor
VerifyOutcomes == {"true", "false", "raise"}

NoResult == [op |-> "none", ret |-> "none"]

VARIABLES
    store,        \* hass.config_entries.async_entries(DOMAIN): entries the host holds
    hassData,     \* hass.data: [domain: DOMAIN key present, keys: entry ids in hass.data[DOMAIN]]
    services,     \* hass.services: registered services of DOMAIN
    pc,           \* per entry: where its lifecycle task is suspended
    loaded,       \* host's view: setup returned True and the entry was not unloaded since
    result,       \* per entry: how its last finished entry-point call ended
    hostUnloadOk, \* per entry: flag async_unload_platforms reported to the last unload
    busFaults,    \* async_register on a registered / async_remove on an unregistered service
    verified,     \* per entry: what verify_login gave setup, while setup is the entry's
                  \* running or last finished call
    entryData,    \* per entry: ConfigEntry.data (accounts map, settings, updated_at)
    devReg,       \* device registry: ids of the registered devices
    entReg,       \* entity registry: the registered entities
    now,          \* int(time.time() * 1000)
    rdTask,       \* per device: the async_remove_config_entry_device task
    reTask,       \* per entry: the async_remove_entry task
    pdTask,       \* the purge_device_data service call
    paTask,       \* the purge_all_data service call
    lastUpdate,   \* per entry: what the last async_update_entry call was handed
    started       \* entry-point invocations started so far (SpecRemoval)

lifecycleVars == <<store, hassData, services, pc, loaded, result, hostUnloadOk, busFaults,
                   verified>>
removalVars == <<entryData, devReg, entReg, now, rdTask, reTask, pdTask, paTask,
                 lastUpdate, started>>
vars == <<lifecycleVars, removalVars>>

\* ------------------------------------------------------- service registry
HasService(svcs, name) == name \in svcs

\* lines 65-78 without the has_service checks
RegisterCallsUnguarded(svcs) == ServiceNames

\* the services async_setup_entry invokes async_register for
RegisterCalls(svcs) == {s \in ServiceNames : ~HasService(svcs, s)}

\* line 111-114 without the entry_id filter
RemainingEntriesUnfiltered(st, e) == st

\* remaining_entries of async_unload_entry
RemainingEntries(st, e) == {o \in st : o # e}

\* the services async_unload_entry invokes async_remove for
RemoveCalls(svcs, remaining) ==
    IF remaining = {} THEN {s \in ServiceNames : HasService(svcs, s)} ELSE {}

RegisterFaults(svcs, calls) == {[op |-> "register", svc |-> s] : s \in calls \cap svcs}
RemoveFaults(svcs, calls) == {[op |-> "remove", svc |-> s] : s \in calls \ svcs}

\* the value async_unload_entry returns, given the host's unload_ok
UnloadReturnValue(unload_ok) == TRUE

\* ------------------------------------------------------------ text values
\* strings the code searches or converts are sequences of one-character strings
Digits == <<"0", "1", "2", "3", "4", "5", "6", "7", "8", "9">>

RECURSIVE Str(_)
\* str(n) of a non-negative int: its decimal digits
Str(n) == IF n < 10 THEN <<Digits[n + 1]>> ELSE Str(n \div 10) \o <<Digits[(n % 10) + 1]>>

DigitValue(c) == CHOOSE d \in 0..9 : Digits[d + 1] = c

RECURSIVE ParseInt(_)
\* int(s) of a decimal string
ParseInt(s) ==
    IF Len(s) = 0 THEN 0
    ELSE 10 * ParseInt(SubSeq(s, 1, Len(s) - 1)) + DigitValue(s[Len(s)])

\* Python's  sub in s  on strings
Contains(sub, s) ==
    \E i \in 1..(Len(s) - Len(sub) + 1) : SubSeq(s, i, i + Len(sub) - 1) = sub

\* ------------------------------------------------- the host's registries
\* the devices of the two entries: one device per account number of the entry
DeviceTable ==
    { [id |-> "d1", entry |-> 1, acct |-> <<"0", "0", "1">>],
      [id |-> "d2", entry |-> 1, acct |-> <<"0", "0", "2">>],
      [id |-> "d3", entry |-> 2, acct |-> <<"0", "1">>],
      [id |-> "d4", entry |-> 2, acct |-> <<"1", "0", "1">>] }

DeviceIds == {d.id : d \in DeviceTable}
Device(id) == CHOOSE d \in DeviceTable : d.id = id
\* a device id the device registry does not know
UnknownDeviceId == "d0"

\* list(device_entry.identifiers)[0][1]
AccountNum(id) == Device(id).acct

AccountsOf(e) == {d.acct : d \in {x \in DeviceTable : x.entry = e}}

\* the sensors' unique identifier: the account number followed by the sensor kind
UniqueId(acct, kind) == acct \o <<"_", kind>>

EntityId(id, kind) == <<"sensor", id, kind>>

EntityKinds(id) == IF id = "d1" THEN {"energy", "cost"} ELSE {"energy"}

EntityOf(d, kind) ==
    [entity_id |-> EntityId(d.id, kind), unique_id |-> UniqueId(d.acct, kind),
     device |-> d.id, entry |-> d.entry, disabled |-> (d.id = "d4")]

\* the sensors the platform created: two for d1, one for every other device, the
\* one of d4 disabled
EntityTable == UNION { {EntityOf(d, k) : k \in EntityKinds(d.id)} : d \in DeviceTable }

\* entity_registry.async_entries_for_config_entry
EntriesForConfigEntry(reg, entry_id) == {ent \in reg : ent.entry = entry_id}

\* entity_registry.async_entries_for_device without include_disabled_entities
EntriesForDeviceEnabledOnly(reg, device_id, include_disabled) ==
    {ent \in reg : ent.device = device_id /\ ~ent.disabled}

\* entity_registry.async_entries_for_device
EntriesForDevice(reg, device_id, include_disabled) ==
    {ent \in reg : ent.device = device_id /\ (include_disabled \/ ~ent.disabled)}

EntityIds(ents) == {ent.entity_id : ent \in ents}

\* ------------------------------------------------------------ entry data
\* the "delete entity data on removal" setting: "absent" when the settings bag or
\* its key is missing
SettingsValues == {"absent", "true", "false"}

\* data.get(CONF_SETTINGS, {}).get(CONF_DELETE_ENTITY_DATA_ON_REMOVAL, True)
DeleteEntityDataDefaultTrue(data) == data.settings # "false"

\* data.get(CONF_SETTINGS, {}).get(CONF_DELETE_ENTITY_DATA_ON_REMOVAL, False)
DeleteEntityData(data) == data.settings = "true"

AccountMeta(acct) == [number |-> acct]

InitialEntryData(e, s) ==
    [accounts |-> [a \in AccountsOf(e) |-> AccountMeta(a)],
     settings |-> s,
     updated_at |-> Str(0),
     login_type |-> IF e = 1 THEN "sms" ELSE "pwd"]

\* ------------------------------------------------------------------- Init
\* idle task records
RdIdle == [pc |-> "idle", ents |-> {}, calls |-> <<>>, ret |-> "none"]
ReIdle == [pc |-> "idle", calls |-> <<>>, ret |-> "none"]
PdIdle == [pc |-> "idle", dev |-> UnknownDeviceId, calls |-> <<>>, ret |-> "none",
           warned |-> FALSE]
PaIdle == [pc |-> "idle", todo |-> <<>>, calls |-> <<>>, ret |-> "none"]
NoUpdate == [called |-> FALSE, stored_accounts |-> {}, given_accounts |-> {},
             stored_at |-> <<>>, given_at |-> <<>>]

\* registries filled by the sensor platform, no removal or purge task running
RegistriesAtRest ==
    /\ devReg = DeviceIds
    /\ now = 1
    /\ rdTask = [d \in DeviceIds |-> RdIdle]
    /\ reTask = [e \in Entries |-> ReIdle]
    /\ pdTask = PdIdle
    /\ paTask = PaIdle
    /\ lastUpdate = [e \in Entries |-> NoUpdate]
    /\ started = 0

Init ==
    /\ store \in SUBSET Entries
    /\ hassData = [domain |-> FALSE, keys |-> {}]
    /\ services = {}
    /\ pc = [e \in Entries |-> "idle"]
    /\ loaded = [e \in Entries |-> FALSE]
    /\ result = [e \in Entries |-> NoResult]
    /\ hostUnloadOk = [e \in Entries |-> TRUE]
    /\ busFaults = {}
    /\ verified = [e \in Entries |-> "none"]
    /\ entryData = [e \in Entries |-> InitialEntryData(e, "absent")]
    /\ entReg = EntityTable
    /\ RegistriesAtRest

\* ---------------------------------------------------------- host actions
\* the host creates a config entry of this integration
AddEntry(e) ==
    /\ e \notin store
    /\ pc[e] = "idle"
    /\ store' = store \cup {e}
    /\ result' = [result EXCEPT ![e] = NoResult]
    /\ verified' = [verified EXCEPT ![e] = "none"]
    /\ UNCHANGED <<hassData, services, pc, loaded, hostUnloadOk, busFaults>>
    /\ UNCHANGED removalVars

\* the host deletes a config entry from its store; it unloads a loaded entry first
DeleteEntry(e) ==
    /\ e \in store
    /\ pc[e] = "idle"
    /\ ~loaded[e]
    /\ store' = store \ {e}
    /\ UNCHANGED <<hassData, services, pc, loaded, result, hostUnloadOk, busFaults,
                   verified>>
    /\ UNCHANGED removalVars

\* ------------------------------------------------------ async_setup_entry
\* lines 49-57: setdefault, load the client, suspend in verify_login
SetupEntered(e) ==
    /\ e \in store
    /\ pc[e] = "idle"
    /\ hassData' = [hassData EXCEPT !.domain = TRUE]
    /\ pc' = [pc EXCEPT ![e] = "verify"]
    /\ UNCHANGED <<store, services, loaded, result, hostUnloadOk, busFaults, verified>>

BeginSetup(e) ==
    /\ SetupEntered(e)
    /\ UNCHANGED removalVars

\* lines 57-58 without the  if not ...: raise ConfigEntryAuthFailed
SetupVerifyUnchecked(r) == IF r = "raise" THEN "error" ELSE "continue"

\* lines 57-58: what the awaited verify_login makes of the setup: an exception of
\* the call reaches the caller, False raises ConfigEntryAuthFailed
SetupVerifyResult(r) ==
    IF r = "true" THEN "continue"
    ELSE IF r = "false" THEN "ConfigEntryAuthFailed"
    ELSE "error"

\* lines 57-62: verification resumes; on success the per-entry state is created and
\* the task suspends in async_forward_entry_setups
SetupVerified(e) ==
    /\ pc[e] = "verify"
    /\ \E r \in VerifyOutcomes :
        /\ verified' = [verified EXCEPT ![e] = r]
        /\ IF SetupVerifyResult(r) = "continue"
           THEN /\ hassData' = [hassData EXCEPT !.keys = @ \cup {e}]
                /\ pc' = [pc EXCEPT ![e] = "forward"]
                /\ UNCHANGED result
           ELSE /\ pc' = [pc EXCEPT ![e] = "idle"]
                /\ result' = [result EXCEPT ![e] =
                       [op |-> "setup", ret |-> SetupVerifyResult(r)]]
                /\ UNCHANGED hassData
    /\ UNCHANGED <<store, services, loaded, hostUnloadOk, busFaults>>
    /\ UNCHANGED removalVars

\* lines 64-80: register the services that are missing, return True
SetupForwarded(e) ==
    /\ pc[e] = "forward"
    /\ LET calls == RegisterCalls(services) IN
        /\ services' = services \cup calls
        /\ busFaults' = busFaults \cup RegisterFaults(services, calls)
    /\ pc' = [pc EXCEPT ![e] = "idle"]
    /\ loaded' = [loaded EXCEPT ![e] = TRUE]
    /\ result' = [result EXCEPT ![e] = [op |-> "setup", ret |-> "true"]]
    /\ UNCHANGED <<store, hassData, hostUnloadOk, verified>>
    /\ UNCHANGED removalVars

\* ----------------------------------------------------- async_unload_entry
\* lines 104-105: suspend in async_unload_platforms
UnloadEntered(e) ==
    /\ e \in store
    /\ pc[e] = "idle"
    /\ pc' = [pc EXCEPT ![e] = "unloading"]
    /\ UNCHANGED <<store, hassData, services, loaded, result, hostUnloadOk, busFaults,
                   verified>>

BeginUnload(e) ==
    /\ UnloadEntered(e)
    /\ UNCHANGED removalVars

\* lines 106-121: the host reports unload_ok; pop the per-entry state (KeyError when
\* it is absent), remove the services when no other entry remains, return
UnloadPlatformsDone(e) ==
    /\ pc[e] = "unloading"
    /\ pc' = [pc EXCEPT ![e] = "idle"]
    /\ \E unload_ok \in BOOLEAN :
        /\ hostUnloadOk' = [hostUnloadOk EXCEPT ![e] = unload_ok]
        /\ IF hassData.domain /\ e \in hassData.keys
           THEN /\ hassData' = [hassData EXCEPT !.keys = @ \ {e}]
                /\ LET calls == RemoveCalls(services, RemainingEntries(store, e)) IN
                    /\ services' = services \ calls
                    /\ busFaults' = busFaults \cup RemoveFaults(services, calls)
                /\ loaded' = [loaded EXCEPT ![e] = FALSE]
                /\ result' = [result EXCEPT ![e] =
                       [op |-> "unload",
                        ret |-> IF UnloadReturnValue(unload_ok) THEN "true" ELSE "false"]]
           ELSE /\ result' = [result EXCEPT ![e] = [op |-> "unload", ret |-> "KeyError"]]
                /\ UNCHANGED <<hassData, services, busFaults, loaded>>
    /\ verified' = [verified EXCEPT ![e] = "none"]
    /\ UNCHANGED store
    /\ UNCHANGED removalVars

\* ------------------------------------------------------- recorder calls
PurgeOutcomes == {"ok", "raise"}

\* hass.services.async_call("recorder", "purge_entities", {"entity_id": ids}, blocking=True)
PurgeCall(ids) == [fn |-> "purge_entities", arg |-> ids, out |-> "pending"]

\* the last call of a log, completed with its outcome
Completed(calls, out) == [calls EXCEPT ![Len(calls)].out = out]

IsPurge(c) == c.fn = "purge_entities"
PurgeCalls(calls) == {i \in 1..Len(calls) : IsPurge(calls[i])}

\* a try without the except around the recorder call
PurgeErrorPropagates(out) == IF out = "raise" THEN "propagate" ELSE "continue"

\* try/except Exception around the recorder call: logged, then the code goes on
PurgeErrorHandling(out) == "continue"

\* the clock advances by one millisecond
Tick ==
    /\ now < MaxNow
    /\ now' = now + 1
    /\ UNCHANGED <<entryData, devReg, entReg, rdTask, reTask, pdTask, paTask,
                   lastUpdate, started>>
    /\ UNCHANGED lifecycleVars

\* ----------------------------------------- async_remove_config_entry_device
\* lines 192-199 without the  if account_num in ent.unique_id  filter
ResolveEntitiesUnfiltered(reg, entry_id, account_num) ==
    EntityIds(EntriesForConfigEntry(reg, entry_id))

\* lines 192-199: the entry's entities whose unique_id contains the account number
ResolveEntities(reg, entry_id, account_num) ==
    EntityIds({ent \in EntriesForConfigEntry(reg, entry_id) :
                  Contains(account_num, ent.unique_id)})

\* new_data[CONF_ELE_ACCOUNTS] left as it was
PopAccountNothing(accounts, account_num) == accounts

\* line 222: new_data[CONF_ELE_ACCOUNTS].pop(account_num)
PopAccount(accounts, account_num) ==
    [a \in DOMAIN accounts \ {account_num} |-> accounts[a]]

\* lines 221-222: data.copy() is shallow, so the pop acts on the map the entry
\* itself holds: what the entry stores when async_update_entry is invoked
StoredAccountsAtUpdate(accounts, account_num) == PopAccount(accounts, account_num)

\* line 223: str(int(time.time() * 1000))
NewUpdatedAt(ms) == Str(ms)

\* lines 217-233, with the host deleting the device when the hook returns True
FinishRemoveDevice(d, ids, calls) ==
    LET e == Device(d).entry
        account_num == AccountNum(d)
        data == entryData[e]
    IN  /\ entReg' = {ent \in entReg : ent.entity_id \notin ids}
        /\ IF account_num \in DOMAIN data.accounts
           THEN /\ entryData' = [entryData EXCEPT ![e] =
                      [data EXCEPT !.accounts = PopAccount(data.accounts, account_num),
                                   !.updated_at = NewUpdatedAt(now)]]
                /\ lastUpdate' = [lastUpdate EXCEPT ![e] =
                      [called |-> TRUE,
                       stored_accounts |->
                           DOMAIN StoredAccountsAtUpdate(data.accounts, account_num),
                       given_accounts |-> DOMAIN PopAccount(data.accounts, account_num),
                       stored_at |-> data.updated_at,
                       given_at |-> NewUpdatedAt(now)]]
                /\ rdTask' = [rdTask EXCEPT ![d] =
                      [pc |-> "done", ents |-> ids, calls |-> calls, ret |-> "true"]]
                /\ devReg' = devReg \ {d}
           ELSE /\ rdTask' = [rdTask EXCEPT ![d] =
                      [pc |-> "done", ents |-> ids, calls |-> calls, ret |-> "KeyError"]]
                /\ UNCHANGED <<entryData, lastUpdate, devReg>>

\* the hook runs without an await: the setting is off or nothing was resolved
RemoveDeviceSync(d) ==
    /\ d \in devReg
    /\ rdTask[d].pc = "idle"
    /\ started < MaxCalls
    /\ LET e == Device(d).entry
           ids == ResolveEntities(entReg, e, AccountNum(d))
       IN  /\ ~(DeleteEntityData(entryData[e]) /\ ids # {})
           /\ FinishRemoveDevice(d, ids, <<>>)
    /\ started' = started + 1
    /\ UNCHANGED <<now, reTask, pdTask, paTask>>
    /\ UNCHANGED lifecycleVars

\* lines 183-207: the hook suspends in the recorder call
RemoveDevicePurge(d) ==
    /\ d \in devReg
    /\ rdTask[d].pc = "idle"
    /\ started < MaxCalls
    /\ LET e == Device(d).entry
           ids == ResolveEntities(entReg, e, AccountNum(d))
       IN  /\ DeleteEntityData(entryData[e]) /\ ids # {}
           /\ rdTask' = [rdTask EXCEPT ![d] =
                  [pc |-> "purging", ents |-> ids, calls |-> <<PurgeCall(ids)>>,
                   ret |-> "none"]]
    /\ started' = started + 1
    /\ UNCHANGED <<entryData, devReg, entReg, now, reTask, pdTask, paTask, lastUpdate>>
    /\ UNCHANGED lifecycleVars

\* lines 207-233: the recorder call ends, the hook goes on
RemoveDevicePurgeDone(d) ==
    /\ rdTask[d].pc = "purging"
    /\ \E out \in PurgeOutcomes :
        LET calls == Completed(rdTask[d].calls, out) IN
        IF PurgeErrorHandling(out) = "continue"
        THEN FinishRemoveDevice(d, rdTask[d].ents, calls)
        ELSE /\ rdTask' = [rdTask EXCEPT ![d] =
                   [pc |-> "done", ents |-> rdTask[d].ents, calls |-> calls,
                    ret |-> "error"]]
             /\ UNCHANGED <<entryData, lastUpdate, devReg, entReg>>
    /\ UNCHANGED <<now, reTask, pdTask, paTask, started>>
    /\ UNCHANGED lifecycleVars

\* -------------------------------------------------- _purge_entry_entity_data
\* lines 158-163: entity ids of all the entry's entities
EntryEntityIds(reg, entry_id) == EntityIds(EntriesForConfigEntry(reg, entry_id))

\* -------------------------------------------------------- async_remove_entry
\* lines 238-248 / 263: read the setting; suspend in the recorder call, or, with
\* nothing to purge, in the executor job that logs out
RemoveEntryStart(e) ==
    /\ e \in store
    /\ reTask[e].pc = "idle"
    /\ started < MaxCalls
    /\ LET ids == EntryEntityIds(entReg, e) IN
        IF DeleteEntityData(entryData[e]) /\ ids # {}
        THEN reTask' = [reTask EXCEPT ![e] =
                 [pc |-> "purging", calls |-> <<PurgeCall(ids)>>, ret |-> "none"]]
        ELSE reTask' = [reTask EXCEPT ![e] =
                 [pc |-> "logout", calls |-> <<>>, ret |-> "none"]]
    /\ started' = started + 1
    /\ UNCHANGED <<entryData, devReg, entReg, now, rdTask, pdTask, paTask, lastUpdate>>
    /\ UNCHANGED lifecycleVars

\* lines 168-176, 249-263: the recorder call ends; suspend in the executor job
RemoveEntryPurgeDone(e) ==
    /\ reTask[e].pc = "purging"
    /\ \E out \in PurgeOutcomes :
        LET calls == Completed(reTask[e].calls, out) IN
        IF PurgeErrorHandling(out) = "continue"
        THEN reTask' = [reTask EXCEPT ![e] =
                 [pc |-> "logout", calls |-> calls, ret |-> "none"]]
        ELSE reTask' = [reTask EXCEPT ![e] =
                 [pc |-> "done", calls |-> calls, ret |-> "error"]]
    /\ UNCHANGED <<entryData, devReg, entReg, now, rdTask, pdTask, paTask, lastUpdate,
                   started>>
    /\ UNCHANGED lifecycleVars

\* line 260 handing a fixed login type to logout instead of the entry's
LogoutArgFixed(data) == "sms"

\* the login type client_logout hands to logout
LogoutArg(data) == data.login_type

\* line 263 with the executor job wrapped in a try / except that swallows
ExecutorJobSwallowed(v, lo) == "none"

\* line 263: the awaited executor job hands on what verify_login or logout raised
ExecutorJobResult(v, lo) ==
    IF v = "raise" \/ (v = "true" /\ lo = "raise") THEN "error" ELSE "none"

\* lines 253-263: client_logout ran in the executor: verify_login, then logout when
\* the session is valid; what either raises reaches the caller
RemoveEntryLogoutDone(e) ==
    /\ reTask[e].pc = "logout"
    /\ \E v \in VerifyOutcomes, lo \in {"ok", "raise"} :
        LET verify == [fn |-> "verify_login", arg |-> {}, out |-> v]
            logout == [fn |-> "logout", arg |-> {LogoutArg(entryData[e])}, out |-> lo]
        IN  reTask' = [reTask EXCEPT ![e] =
                [pc |-> "done",
                 calls |-> IF v = "true" THEN reTask[e].calls \o <<verify, logout>>
                           ELSE reTask[e].calls \o <<verify>>,
                 ret |-> ExecutorJobResult(v, lo)]]
    /\ UNCHANGED <<entryData, devReg, entReg, now, rdTask, pdTask, paTask, lastUpdate,
                   started>>
    /\ UNCHANGED lifecycleVars

\* --------------------------------- _handle_purge_device_data, purge of a device
\* lines 85-145: look the device up; with entities to purge, suspend in the
\* recorder call
PurgeDeviceCall(device_id) ==
    /\ pdTask.pc \in {"idle", "done"}
    /\ started < MaxCalls
    /\ LET ids == EntityIds(EntriesForDevice(entReg, device_id, TRUE)) IN
        IF device_id \notin devReg
        THEN pdTask' = [pc |-> "done", dev |-> device_id, calls |-> <<>>,
                        ret |-> "none", warned |-> TRUE]
        ELSE IF ids = {}
        THEN pdTask' = [pc |-> "done", dev |-> device_id, calls |-> <<>>,
                        ret |-> "none", warned |-> FALSE]
        ELSE pdTask' = [pc |-> "purging", dev |-> device_id,
                        calls |-> <<PurgeCall(ids)>>, ret |-> "none", warned |-> FALSE]
    /\ started' = started + 1
    /\ UNCHANGED <<entryData, devReg, entReg, now, rdTask, reTask, paTask, lastUpdate>>
    /\ UNCHANGED lifecycleVars

\* lines 145-153: the recorder call ends
PurgeDeviceDone ==
    /\ pdTask.pc = "purging"
    /\ \E out \in PurgeOutcomes :
        pdTask' = [pdTask EXCEPT
            !.pc = "done",
            !.calls = Completed(pdTask.calls, out),
            !.ret = IF PurgeErrorHandling(out) = "continue" THEN "none" ELSE "error"]
    /\ UNCHANGED <<entryData, devReg, entReg, now, rdTask, reTask, paTask, lastUpdate,
                   started>>
    /\ UNCHANGED lifecycleVars

\* ------------------------------------------------------ _handle_purge_all_data
RECURSIVE SortedSeq(_)
\* hass.config_entries.async_entries(DOMAIN) as a list
SortedSeq(S) ==
    IF S = {} THEN <<>>
    ELSE LET m == CHOOSE x \in S : \A y \in S : x <= y IN <<m>> \o SortedSeq(S \ {m})

\* line 165 without the  if entity_ids  guard: no entry is passed
SkipEmptyNever(todo, reg) == todo

RECURSIVE SkipEmpty(_, _)
\* lines 98-99, 165: entries without entities are passed without a recorder call
SkipEmpty(todo, reg) ==
    IF todo = <<>> THEN <<>>
    ELSE IF EntryEntityIds(reg, Head(todo)) = {} THEN SkipEmpty(Tail(todo), reg)
    ELSE todo

\* the loop goes on with the entries in todo: next recorder call, or the end
PurgeAllContinue(todo, calls) ==
    LET rest == SkipEmpty(todo, entReg) IN
    IF rest = <<>>
    THEN paTask' = [pc |-> "done", todo |-> <<>>, calls |-> calls, ret |-> "none"]
    ELSE paTask' = [pc |-> "purging", todo |-> rest,
                    calls |-> calls \o <<PurgeCall(EntryEntityIds(entReg, Head(rest)))>>,
                    ret |-> "none"]

\* lines 95-99: list the entries, purge the first one that has entities
PurgeAllCall ==
    /\ paTask.pc \in {"idle", "done"}
    /\ started < MaxCalls
    /\ PurgeAllContinue(SortedSeq(store), <<>>)
    /\ started' = started + 1
    /\ UNCHANGED <<entryData, devReg, entReg, now, rdTask, reTask, pdTask, lastUpdate>>
    /\ UNCHANGED lifecycleVars

\* lines 168-176, 98-99: a recorder call ends, the loop goes on
PurgeAllDone ==
    /\ paTask.pc = "purging"
    /\ \E out \in PurgeOutcomes :
        LET calls == Completed(paTask.calls, out) IN
        IF PurgeErrorHandling(out) = "continue"
        THEN PurgeAllContinue(Tail(paTask.todo), calls)
        ELSE paTask' = [pc |-> "done", todo |-> Tail(paTask.todo), calls |-> calls,
                        ret |-> "error"]
    /\ UNCHANGED <<entryData, devReg, entReg, now, rdTask, reTask, pdTask, lastUpdate,
                   started>>
    /\ UNCHANGED lifecycleVars

\* --------------------------------------------------------- specifications
\* the host sets up an entry that is not loaded
SetupStart(e) == ~loaded[e] /\ BeginSetup(e)

\* the host unloads an entry that is loaded
UnloadStart(e) == loaded[e] /\ BeginUnload(e)

Next ==
    \E e \in Entries :
        \/ AddEntry(e)
        \/ DeleteEntry(e)
        \/ SetupStart(e)
        \/ SetupVerified(e)
        \/ SetupForwarded(e)
        \/ UnloadStart(e)
        \/ UnloadPlatformsDone(e)

Spec == Init /\ [][Next]_vars

\* a caller that repeats entry-point calls whatever the entry's load state
RepeatSetup(e) == BeginSetup(e)
RepeatUnload(e) == BeginUnload(e)

NextRepeat ==
    \E e \in Entries :
        \/ AddEntry(e)
        \/ DeleteEntry(e)
        \/ RepeatSetup(e)
        \/ SetupVerified(e)
        \/ SetupForwarded(e)
        \/ RepeatUnload(e)
        \/ UnloadPlatformsDone(e)

SpecRepeat == Init /\ [][NextRepeat]_vars

\* the entries that have accounts, and with them devices and sensors
AccountEntries == {e \in Entries : AccountsOf(e) # {}}

\* a host with the entries of the device table set up: the sensors exist, one of
\* them possibly not yet created, and each entry has its own setting
InitRemoval ==
    /\ store = AccountEntries
    /\ hassData = [domain |-> TRUE, keys |-> AccountEntries]
    /\ services = ServiceNames
    /\ pc = [e \in Entries |-> "idle"]
    /\ loaded = [e \in Entries |-> e \in AccountEntries]
    /\ result = [e \in Entries |->
                    IF e \in AccountEntries THEN [op |-> "setup", ret |-> "true"]
                    ELSE NoResult]
    /\ hostUnloadOk = [e \in Entries |-> TRUE]
    /\ busFaults = {}
    /\ verified = [e \in Entries |-> IF e \in AccountEntries THEN "true" ELSE "none"]
    /\ \E s \in [AccountEntries -> SettingsValues] :
        entryData = [e \in Entries |->
            InitialEntryData(e, IF e \in AccountEntries THEN s[e] ELSE "absent")]
    /\ entReg \in {EntityTable, EntityTable \ {EntityOf(Device("d2"), "energy")}}
    /\ RegistriesAtRest

NextRemoval ==
    \/ Tick
    \/ \E d \in DeviceIds :
        \/ RemoveDeviceSync(d)
        \/ RemoveDevicePurge(d)
        \/ RemoveDevicePurgeDone(d)
    \/ \E e \in AccountEntries :
        \/ RemoveEntryStart(e)
        \/ RemoveEntryPurgeDone(e)
        \/ RemoveEntryLogoutDone(e)
    \/ \E device_id \in DeviceIds \cup {UnknownDeviceId} : PurgeDeviceCall(device_id)
    \/ PurgeDeviceDone
    \/ PurgeAllCall
    \/ PurgeAllDone

SpecRemoval == InitRemoval /\ [][NextRemoval]_vars

\* the host reloads an entry (unload, then setup) while purges and removals run;
\* each reload call counts as an invocation
ReloadUnload(e) ==
    /\ loaded[e]
    /\ started < MaxCalls
    /\ UnloadEntered(e)
    /\ started' = started + 1
    /\ UNCHANGED <<entryData, devReg, entReg, now, rdTask, reTask, pdTask, paTask,
                   lastUpdate>>

ReloadSetup(e) ==
    /\ ~loaded[e]
    /\ started < MaxCalls
    /\ SetupEntered(e)
    /\ started' = started + 1
    /\ UNCHANGED <<entryData, devReg, entReg, now, rdTask, reTask, pdTask, paTask,
                   lastUpdate>>

\* purges, removals and reloads side by side, the clock standing still
NextErrors ==
    \/ \E d \in DeviceIds :
        \/ RemoveDeviceSync(d)
        \/ RemoveDevicePurge(d)
        \/ RemoveDevicePurgeDone(d)
    \/ \E e \in AccountEntries :
        \/ RemoveEntryStart(e)
        \/ RemoveEntryPurgeDone(e)
        \/ RemoveEntryLogoutDone(e)
        \/ ReloadUnload(e)
        \/ UnloadPlatformsDone(e)
        \/ ReloadSetup(e)
        \/ SetupVerified(e)
        \/ SetupForwarded(e)
    \/ \E device_id \in DeviceIds \cup {UnknownDeviceId} : PurgeDeviceCall(device_id)
    \/ PurgeDeviceDone
    \/ PurgeAllCall
    \/ PurgeAllDone

SpecErrors == InitRemoval /\ [][NextErrors]_vars

\* ------------------------------------------------------- lifecycle claims
\* no lifecycle task is suspended: every call has run to completion
Quiescent == \A e \in Entries : pc[e] = "idle"

AnySetUp == \E e \in Entries : loaded[e]

\* the step in which unload(e) returns a value
UnloadCompleted(e) ==
    /\ pc[e] = "unloading"
    /\ pc'[e] = "idle"
    /\ result'[e].op = "unload"
    /\ result'[e].ret \in {"true", "false"}

\* C1: once every call has run to completion, each of the two services is registered
\* if and only if at least one entry is currently set up.
C1_RegisteredIffSetUp ==
    Quiescent => \A s \in ServiceNames : (s \in services <=> AnySetUp)

\* C2: when unload(e) returns, the per-entry state key of e is absent and each service
\* is registered if and only if some other entry is still in the config-entry store.
C2_AfterUnload ==
    [][\A e \in Entries : UnloadCompleted(e) =>
          /\ e \notin hassData'.keys
          /\ \A s \in ServiceNames : (s \in services' <=> store' \ {e} # {})]_vars

\* C2 witness: a first entry was unloaded while a second one existed, the second was
\* then unloaded as the only entry left, and the services are gone.
C2_Witness ==
    \E e \in Entries, o \in Entries :
        /\ e # o
        /\ Quiescent
        /\ store = {e}
        /\ result[e] = [op |-> "unload", ret |-> "true"]
        /\ result[o] = [op |-> "unload", ret |-> "true"]
        /\ e \notin hassData.keys
        /\ services = {}

\* C3: when unload(e) returns and no call is in flight, both services are registered
\* if another entry is still set up, and neither is registered if none is, whether
\* or not unloaded entries are still in the config-entry store.
C3_LastUnloadRemovesServices ==
    [][\A e \in Entries : (UnloadCompleted(e) /\ Quiescent') =>
          IF \E o \in Entries \ {e} : loaded'[o]
          THEN services' = ServiceNames
          ELSE services' = {}]_vars

\* C4: the value unload(e) returns is the flag the host's platform unload reported.
C4_UnloadReturnsHostFlag ==
    \A e \in Entries :
        (result[e].op = "unload" /\ result[e].ret \in {"true", "false"}) =>
            ((result[e].ret = "true") <=> hostUnloadOk[e])

\* C5: under every interleaving of setup and unload tasks, register is never invoked
\* for a registered service and remove never for an unregistered one.
C5_NoDuplicateRegistration == busFaults = {}

\* C5 witness: two setups ran one after the other's registration, both entries are
\* set up, both services are registered.
C5_Witness ==
    /\ \A e \in Entries : loaded[e] /\ result[e] = [op |-> "setup", ret |-> "true"]
    /\ services = ServiceNames
    /\ busFaults = {}

\* C6: no repeated call raises: unload of an entry whose per-entry state is absent
\* and setup of an entry that is already set up both complete without an error
\* of their own.
C6_RepeatedCallsDoNotRaise ==
    \A e \in Entries : result[e].ret # "KeyError"

\* --------------------------------------------------------- removal claims
\* the step in which the account-removal hook for device d finishes
RemoveDeviceCompleted(d) == rdTask[d].pc # "done" /\ rdTask'[d].pc = "done"

Detached(ids) == \A ent \in entReg : ent.entity_id \notin ids

SettingOn(e) == entryData[e].settings = "true"

HasCall(calls, fn) == \E i \in 1..Len(calls) : calls[i].fn = fn

PurgeRaised(calls) == \E i \in PurgeCalls(calls) : calls[i].out = "raise"

\* C7: whenever the account-removal hook finishes for a device, it returns success
\* and the entry's account map is the map it had before minus exactly the device's
\* account number, every other account keeping its metadata.
C7_RemovalStripsAccount ==
    [][\A d \in DeviceIds : RemoveDeviceCompleted(d) =>
          LET e == Device(d).entry
              before == entryData[e].accounts
              after == entryData'[e].accounts
          IN  /\ rdTask'[d].ret = "true"
              /\ AccountNum(d) \in DOMAIN before
              /\ DOMAIN after = DOMAIN before \ {AccountNum(d)}
              /\ \A a \in DOMAIN after : after[a] = before[a]]_vars

\* C7 witness: the device of account 001 was removed from the entry with accounts
\* 001 and 002, and the map holds 002 alone.
C7_Witness ==
    /\ rdTask["d1"].pc = "done"
    /\ rdTask["d1"].ret = "true"
    /\ DOMAIN entryData[1].accounts = {<<"0", "0", "2">>}
    /\ entryData[1].accounts[<<"0", "0", "2">>] = AccountMeta(<<"0", "0", "2">>)

\* C8: the update timestamp an account removal hands to the host is strictly
\* greater than the timestamp the entry held before.
C8_UpdatedAtAdvances ==
    \A e \in Entries :
        lastUpdate[e].called =>
            ParseInt(lastUpdate[e].given_at) > ParseInt(lastUpdate[e].stored_at)

\* C9: with the setting disabled or absent, account removal and entry removal issue
\* no recorder purge, account removal still detaches every resolved entity and
\* rewrites the entry, and entry removal still verifies the session and logs out
\* when it is valid.
C9_NoPurgeWhenDisabled ==
    /\ \A d \in DeviceIds :
        LET e == Device(d).entry IN
        ~SettingOn(e) =>
            /\ PurgeCalls(rdTask[d].calls) = {}
            /\ rdTask[d].pc \in {"idle", "done"}
            /\ rdTask[d].pc = "done" =>
                /\ rdTask[d].ret = "true"
                /\ Detached(rdTask[d].ents)
                /\ AccountNum(d) \notin DOMAIN entryData[e].accounts
                /\ lastUpdate[e].called
    /\ \A e \in Entries :
        ~SettingOn(e) =>
            /\ PurgeCalls(reTask[e].calls) = {}
            /\ reTask[e].pc \in {"idle", "logout", "done"}
            /\ reTask[e].pc = "done" =>
                /\ reTask[e].calls[1].fn = "verify_login"
                /\ (reTask[e].calls[1].out = "true") <=> HasCall(reTask[e].calls, "logout")

\* C9 witness: with the setting not enabled, a device with sensors was removed and
\* its entry was removed with a logout.
C9_Witness ==
    \E d \in DeviceIds :
        LET e == Device(d).entry IN
        /\ ~SettingOn(e)
        /\ rdTask[d].pc = "done"
        /\ rdTask[d].ents # {}
        /\ reTask[e].pc = "done"
        /\ HasCall(reTask[e].calls, "logout")

\* C10: a recorder purge that raises is never an obstacle: the account-removal hook
\* still detaches every resolved entity, rewrites the entry and returns success;
\* entry removal still reaches its logout phase; and the purge of a device, of an
\* entry and of all entries never end with an error.
C10_FailedPurgeDoesNotBlock ==
    /\ \A d \in DeviceIds :
        LET e == Device(d).entry IN
        PurgeRaised(rdTask[d].calls) =>
            /\ rdTask[d].pc = "done"
            /\ rdTask[d].ret = "true"
            /\ Detached(rdTask[d].ents)
            /\ AccountNum(d) \notin DOMAIN entryData[e].accounts
            /\ lastUpdate[e].called
    /\ \A e \in Entries :
        PurgeRaised(reTask[e].calls) =>
            /\ reTask[e].pc \in {"logout", "done"}
            /\ reTask[e].pc = "done" => HasCall(reTask[e].calls, "verify_login")
    /\ pdTask.ret # "error"
    /\ paTask.ret # "error"
    /\ PurgeRaised(paTask.calls) /\ paTask.pc = "done" => paTask.todo = <<>>

\* C10 witness: the purge raised in an account removal and in an entry removal, and
\* both went on to their end.
C10_Witness ==
    \E d \in DeviceIds, e \in Entries :
        /\ PurgeRaised(rdTask[d].calls)
        /\ rdTask[d].pc = "done"
        /\ rdTask[d].ret = "true"
        /\ PurgeRaised(reTask[e].calls)
        /\ reTask[e].pc = "done"
        /\ HasCall(reTask[e].calls, "logout")

\* the entity ids of the entities of entry e whose unique identifier contains the
\* account number of device d
MatchingIds(reg, d) ==
    {ent.entity_id : ent \in {x \in reg : /\ x.entry = Device(d).entry
                                           /\ Contains(AccountNum(d), x.unique_id)}}

\* C11: an account removal with the setting enabled and a non-empty resolved subset
\* issues its one purge call for exactly the entity ids whose unique identifier
\* contains the account number while all of them are still registered, issues no
\* further call, and ends with every one of them absent from the registry.
C11_OneBulkPurgeBeforeDetach ==
    [][\A d \in DeviceIds :
          /\ (rdTask[d].pc = "idle" /\ rdTask'[d].pc # "idle"
                /\ SettingOn(Device(d).entry) /\ MatchingIds(entReg, d) # {}) =>
                /\ rdTask'[d].pc = "purging"
                /\ Len(rdTask'[d].calls) = 1
                /\ IsPurge(rdTask'[d].calls[1])
                /\ rdTask'[d].calls[1].arg = MatchingIds(entReg, d)
                /\ rdTask'[d].calls[1].arg \subseteq EntityIds(entReg')
          /\ (rdTask[d].pc = "purging" /\ rdTask'[d] # rdTask[d]) =>
                /\ rdTask'[d].pc = "done"
                /\ Len(rdTask'[d].calls) = 1
                /\ rdTask'[d].calls[1].arg = rdTask[d].calls[1].arg
                /\ rdTask'[d].calls[1].out \in PurgeOutcomes
                /\ \A ent \in entReg' : ent.entity_id \notin rdTask[d].calls[1].arg]_vars

\* C11 witness: accounts 001 and 002, setting enabled: the removal of the device of
\* 001 purged its two sensors in one call and both are gone from the registry.
C11_Witness ==
    /\ SettingOn(1)
    /\ rdTask["d1"].pc = "done"
    /\ Len(rdTask["d1"].calls) = 1
    /\ rdTask["d1"].calls[1].arg = {EntityId("d1", "energy"), EntityId("d1", "cost")}
    /\ rdTask["d1"].calls[1].out = "ok"
    /\ Detached({EntityId("d1", "energy"), EntityId("d1", "cost")})
    /\ DOMAIN entryData[1].accounts = {<<"0", "0", "2">>}

\* the entity ids owned by a device, disabled entities included
OwnedIds(reg, device_id) == {ent.entity_id : ent \in {x \in reg : x.device = device_id}}

\* C12: a purge-device call for an unknown device or for a device without entities
\* issues no persistence call and changes no registry, entry data or other task; for
\* a registered device with entities it issues exactly one bulk purge whose entity
\* ids are exactly the ids that device owns, disabled ones included.
C12_PurgeDeviceCalls ==
    [][/\ (started' = started + 1 /\ pdTask' # pdTask) =>
            LET dev == pdTask'.dev
                owned == OwnedIds(entReg, dev)
            IN  IF dev \notin devReg \/ owned = {}
                THEN /\ pdTask'.pc = "done"
                     /\ pdTask'.calls = <<>>
                     /\ pdTask'.ret = "none"
                     /\ UNCHANGED <<entryData, devReg, entReg, lastUpdate, rdTask,
                                    reTask, paTask, lifecycleVars>>
                ELSE /\ pdTask'.pc = "purging"
                     /\ Len(pdTask'.calls) = 1
                     /\ IsPurge(pdTask'.calls[1])
                     /\ pdTask'.calls[1].arg = owned
       /\ (pdTask.pc = "purging" /\ pdTask' # pdTask) =>
            /\ pdTask'.pc = "done"
            /\ pdTask'.dev = pdTask.dev
            /\ Len(pdTask'.calls) = 1
            /\ pdTask'.calls[1].arg = pdTask.calls[1].arg]_vars

\* C12 witness: the device of account 101 owns one disabled sensor; the purge-device
\* call for it ended after one recorder call naming that sensor.
C12_Witness ==
    /\ pdTask.pc = "done"
    /\ pdTask.dev = "d4"
    /\ \E ent \in EntityTable : ent.device = "d4" /\ ent.disabled
    /\ Len(pdTask.calls) = 1
    /\ pdTask.calls[1].arg = {EntityId("d4", "energy")}
    /\ pdTask.calls[1].out = "ok"

\* a purge-device call for an unknown device, and one for a device without entities,
\* both ended without a recorder call
C12_NoCallCases ==
    /\ pdTask.pc = "done"
    /\ pdTask.calls = <<>>
    /\ \/ pdTask.dev = UnknownDeviceId
       \/ pdTask.dev \in devReg /\ OwnedIds(entReg, pdTask.dev) = {}

\* positions of the calls to fn in a call log
CallIndexes(calls, fn) == {i \in 1..Len(calls) : calls[i].fn = fn}

\* C13: in an entry removal every purge call precedes the session verification and
\* has completed or failed by then; the removal never ends without the verification
\* having run, whatever the purge outcome; logout is invoked, after the
\* verification and with the entry's recorded login type, exactly when the
\* verification returned true.
C13_PurgeThenLogout ==
    \A e \in Entries :
        LET calls == reTask[e].calls
            purges == CallIndexes(calls, "purge_entities")
            verifies == CallIndexes(calls, "verify_login")
            logouts == CallIndexes(calls, "logout")
        IN  /\ purges \cup verifies \cup logouts = 1..Len(calls)
            /\ Cardinality(purges) <= 1
            /\ Cardinality(verifies) <= 1
            /\ Cardinality(logouts) <= 1
            /\ \A i \in purges, j \in verifies : i < j /\ calls[i].out \in PurgeOutcomes
            /\ \A i \in verifies, j \in logouts : i < j
            /\ reTask[e].pc = "purging" => purges # {} /\ verifies = {}
            /\ reTask[e].pc = "logout" =>
                   verifies = {} /\ \A i \in purges : calls[i].out \in PurgeOutcomes
            /\ reTask[e].pc = "done" =>
                   /\ verifies # {}
                   /\ logouts # {} <=> \E i \in verifies : calls[i].out = "true"
            /\ \A j \in logouts : calls[j].arg = {entryData[e].login_type}

\* C13 witness: removal of entry 2 (login type pwd) with the setting enabled: the
\* purge call failed, then the session was verified and logout(pwd) was invoked.
C13_Witness ==
    /\ reTask[2].pc = "done"
    /\ Len(reTask[2].calls) = 3
    /\ reTask[2].calls[1].fn = "purge_entities"
    /\ reTask[2].calls[1].out = "raise"
    /\ reTask[2].calls[2].fn = "verify_login"
    /\ reTask[2].calls[2].out = "true"
    /\ reTask[2].calls[3].fn = "logout"
    /\ reTask[2].calls[3].arg = {"pwd"}

\* the step in which setup(e) resumes from the session verification
VerifyReturned(e) == pc[e] = "verify" /\ pc'[e] # "verify"

\* C14: a setup whose session verification returns false ends with the
\* authentication failure, creates no per-entry state key, forwards no platform
\* setup and leaves the registered services as they were; a setup whose verification
\* returns true creates the per-entry state, suspends in the forwarded platform setup
\* and ends with both services registered.
C14_SetupFailureHasNoEffect ==
    [][\A e \in Entries :
          /\ (VerifyReturned(e) /\ verified'[e] = "false") =>
                /\ pc'[e] = "idle"
                /\ result'[e] = [op |-> "setup", ret |-> "ConfigEntryAuthFailed"]
                /\ hassData'.keys = hassData.keys
                /\ e \notin hassData'.keys
                /\ services' = services
                /\ loaded' = loaded
          /\ (VerifyReturned(e) /\ verified'[e] = "true") =>
                /\ pc'[e] = "forward"
                /\ hassData'.keys = hassData.keys \cup {e}
          /\ (pc[e] = "forward" /\ pc'[e] # "forward") =>
                /\ pc'[e] = "idle"
                /\ e \in hassData'.keys
                /\ services' = ServiceNames
                /\ result'[e] = [op |-> "setup", ret |-> "true"]]_vars

\* C14 witness: entry 1 was set up with a valid session, then the setup of entry 2
\* failed on an invalid session: no key for entry 2, both services still registered.
C14_Witness ==
    /\ verified[1] = "true" /\ result[1] = [op |-> "setup", ret |-> "true"]
    /\ 1 \in hassData.keys
    /\ verified[2] = "false"
    /\ result[2] = [op |-> "setup", ret |-> "ConfigEntryAuthFailed"]
    /\ 2 \notin hassData.keys
    /\ ~loaded[2]
    /\ services = ServiceNames

\* the entries some of whose sensors are named by a set of entity ids
EntriesOfIds(ids) == {ent.entry : ent \in {x \in EntityTable : x.entity_id \in ids}}

\* the entry a purge-all task addressed with the i-th call of its log
CallEntry(calls, i) == CHOOSE e \in Entries : e \in EntriesOfIds(calls[i].arg)

\* C15: a purge-all task issues its calls one after another, each only after the one
\* before it completed or failed, at most one per entry and in the order of the
\* store; a call names exactly the entity ids its entry has at that moment and is
\* never issued for an entry without entities; when the task returns, every entry of
\* the store that has entities was called for, whether or not an earlier call failed.
C15_PurgeAllVisitsEveryEntry ==
    [][LET calls == paTask'.calls
           n == Len(calls)
       IN  /\ \A i \in 1..n :
                /\ IsPurge(calls[i])
                /\ calls[i].arg # {}
                /\ Cardinality(EntriesOfIds(calls[i].arg)) = 1
                /\ CallEntry(calls, i) \in store
                /\ i < n => calls[i].out \in PurgeOutcomes
           /\ \A i, j \in 1..n : i < j => CallEntry(calls, i) < CallEntry(calls, j)
           /\ (n > 0 /\ calls[n].out = "pending"
                  /\ (Len(paTask.calls) # n \/ paTask.calls[n].out # "pending")) =>
                 /\ calls[n].arg =
                        {ent.entity_id : ent \in {x \in entReg : x.entry = CallEntry(calls, n)}}
                 /\ \A e \in store :
                        (e < CallEntry(calls, n)
                           /\ \A i \in 1..(n - 1) : CallEntry(calls, i) # e) =>
                        \A ent \in entReg : ent.entry # e
           /\ paTask'.pc = "purging" <=> (n > 0 /\ calls[n].out = "pending")
           /\ (paTask'.pc = "done" /\ paTask.pc = "purging") =>
                 \A e \in store :
                    (\E ent \in entReg' : ent.entry = e) =>
                    \E i \in 1..n : CallEntry(calls, i) = e]_vars

\* C15 witness: purge-all over two entries with sensors: the call for entry 1 failed,
\* the call for entry 2 was issued all the same and succeeded.
C15_Witness ==
    /\ paTask.pc = "done"
    /\ Len(paTask.calls) = 2
    /\ paTask.calls[1].arg \subseteq {EntityId("d1", "energy"), EntityId("d1", "cost"),
                                     EntityId("d2", "energy")}
    /\ paTask.calls[1].out = "raise"
    /\ paTask.calls[2].arg = {EntityId("d3", "energy"), EntityId("d4", "energy")}
    /\ paTask.calls[2].out = "ok"

\* a purge-all task passed an entry without entities and ended without a call for it
C15_EmptyEntryPassed ==
    /\ paTask.pc = "done"
    /\ \E e \in store :
        /\ \A ent \in entReg : ent.entry # e
        /\ \A i \in 1..Len(paTask.calls) : CallEntry(paTask.calls, i) # e
    /\ \E e \in Entries : lastUpdate[e].called

\* the account numbers of the devices of entry e that are registered
RegisteredAccounts(e) == {AccountNum(d) : d \in {x \in devReg : Device(x).entry = e}}

\* C16: whatever account removals ran on an entry, its account map has one key for
\* each registered device of the entry and no other key: the keys are the account
\* numbers of the remaining devices, and distinct devices have distinct numbers.
C16_AccountsMatchDevices ==
    \A e \in Entries :
        /\ DOMAIN entryData[e].accounts = RegisteredAccounts(e)
        /\ Cardinality(DOMAIN entryData[e].accounts) =
               Cardinality({d \in devReg : Device(d).entry = e})

\* C16 witness: both accounts of entry 1 were removed one after the other: no device
\* of the entry is registered and its account map is empty.
C16_Witness ==
    /\ rdTask["d1"].pc = "done" /\ rdTask["d1"].ret = "true"
    /\ rdTask["d2"].pc = "done" /\ rdTask["d2"].ret = "true"
    /\ devReg \cap {"d1", "d2"} = {}
    /\ DOMAIN entryData[1].accounts = {}

\* the device that owns the sensor with an entity id
OwnerOf(id) == CHOOSE dev \in DeviceIds : \E ent \in EntityTable :
                   ent.entity_id = id /\ ent.device = dev

\* C17: the entities an account removal resolves, purges and detaches all belong to
\* the device being removed, never to another device of the entry.
C17_OnlyOwnEntities ==
    \A d \in DeviceIds :
        /\ \A id \in rdTask[d].ents : OwnerOf(id) = d
        /\ \A i \in 1..Len(rdTask[d].calls) :
               IsPurge(rdTask[d].calls[i]) =>
               \A id \in rdTask[d].calls[i].arg : OwnerOf(id) = d

\* the last call of a log was to fn and raised
LastRaised(calls, fn) ==
    calls # <<>> /\ calls[Len(calls)].fn = fn /\ calls[Len(calls)].out = "raise"

\* C18: a purge call that raised is never what a finished task reports: purge of a
\* device, purge of all entries and account removal end without an error, and so
\* does entry removal unless its own verification or logout raised; an exception of
\* the session verification or of logout in entry removal, and of the session
\* verification in setup, is what the task ends with.
C18_AsymmetricErrors ==
    [][/\ \A d \in DeviceIds :
            (rdTask'[d].pc = "done" /\ PurgeRaised(rdTask'[d].calls)) =>
                rdTask'[d].ret # "error"
       /\ (pdTask'.pc = "done" /\ PurgeRaised(pdTask'.calls)) => pdTask'.ret = "none"
       /\ (paTask'.pc = "done" /\ PurgeRaised(paTask'.calls)) => paTask'.ret = "none"
       /\ \A e \in Entries :
            /\ reTask'[e].pc = "done" =>
                  (reTask'[e].ret = "error" <=>
                      \/ LastRaised(reTask'[e].calls, "verify_login")
                      \/ LastRaised(reTask'[e].calls, "logout"))
            /\ (PurgeRaised(reTask'[e].calls) /\ reTask'[e].pc # "done") =>
                  reTask'[e].ret = "none"
            /\ (VerifyReturned(e) /\ verified'[e] = "raise") =>
                  /\ pc'[e] = "idle"
                  /\ result'[e] = [op |-> "setup", ret |-> "error"]
                  /\ hassData'.keys = hassData.keys]_vars

\* C18 witness: the purge of entry 1's removal raised and its logout raised: the
\* removal ended with the error of the logout; the purge-device call whose purge
\* raised ended without an error.
C18_Witness ==
    /\ reTask[1].pc = "done"
    /\ PurgeRaised(reTask[1].calls)
    /\ LastRaised(reTask[1].calls, "logout")
    /\ reTask[1].ret = "error"
    /\ pdTask.pc = "done"
    /\ PurgeRaised(pdTask.calls)
    /\ pdTask.ret = "none"

\* an entry was unloaded and its next setup ended with what the session verification
\* raised
C18_SetupRaised ==
    \E e \in Entries :
        /\ verified[e] = "raise"
        /\ result[e] = [op |-> "setup", ret |-> "error"]
        /\ ~loaded[e]

\* C19: when an account removal invokes the host's entry update, the account map the
\* entry has stored at that moment still holds the removed account number, so the
\* data handed over differs from the stored data in the account map.
C19_UpdateDiffersInAccounts ==
    \A e \in Entries :
        lastUpdate[e].called =>
            /\ lastUpdate[e].stored_accounts \ lastUpdate[e].given_accounts # {}
            /\ lastUpdate[e].stored_accounts # lastUpdate[e].given_accounts

====
